---- MODULE Spec2Model ----
(***************************************************************************)
(* AIService (src/services/ai.py): the transcriber, the intent classifier  *)
(* and the four extractors.  Every method is a coroutine with one await:   *)
(* it builds a request, awaits the external call, and then reads and       *)
(* validates the response inside one try/except.                           *)
(*                                                                         *)
(* Spec runs one caller against a service that may answer anything.        *)
(* SpecConcurrent runs two callers against a service that answers a        *)
(* request by the request alone.  In both the caller may change its list   *)
(* of product names at any moment.                                         *)
(*                                                                         *)
(* Python values are tagged records.  The tag is field t; the payload      *)
(* field has a different name for every tag.                               *)
(*   JSON values  : JNull, JNum(n), JStr(s), JArr(seq), JObj(record)       *)
(*   Python values: PyNone, PyStr(s), and one record per pydantic model    *)
(* Numbers are integers: a float field holds an integral value here.       *)
(***************************************************************************)
EXTENDS Integers, Sequences, FiniteSets, TLC

VARIABLES
    task,               \* what each coroutine is doing
    existing_products,  \* the caller's list of product names
    service             \* which deterministic service the run is against

vars == <<task, existing_products, service>>

\* Longest item list in a service response.
MaxItems == 2

\* Coroutines of the caller that run AIService methods.
Tasks == {"t1"}

(***************************************************************************)
(* Values                                                                  *)
(***************************************************************************)
JNull == [t |-> "null"]
JNum(n) == [t |-> "num", n |-> n]
JStr(s) == [t |-> "str", s |-> s]
JArr(a) == [t |-> "arr", a |-> a]
JObj(o) == [t |-> "obj", o |-> o]

PyNone == [t |-> "None"]
PyStr(s) == [t |-> "str", s |-> s]

\* Outcome of evaluating Python code: a value, or a raised exception.
Value(v) == [ok |-> TRUE, value |-> v]
Raise(e) == [ok |-> FALSE, exc |-> e]

\* The exception classes that opening a file, calling the service or
\* reading a response can raise; every one is a subclass of Exception.
ExceptionSubclasses ==
    {"OSError", "APIError", "IndexError", "AttributeError", "TypeError",
     "JSONDecodeError", "ValidationError"}

\* Faulty variant: the handlers catch only the parsing errors.
ExceptParsingErrors(e) == e \in {"JSONDecodeError", "ValidationError"}

\* `except Exception as e`: the classes the handlers catch.
ExceptException(e) == e \in ExceptionSubclasses

(***************************************************************************)
(* str.strip() and str.lower() on a token, a sequence of characters        *)
(***************************************************************************)
Whitespace == {" ", "\n", "\t"}

UpperToLower ==
    [c \in {"A", "C", "D", "E", "I", "L", "N", "O", "P", "Q", "R", "S",
            "T", "U", "Y"} |->
        CASE c = "A" -> "a" [] c = "C" -> "c" [] c = "D" -> "d"
          [] c = "E" -> "e" [] c = "I" -> "i" [] c = "L" -> "l"
          [] c = "N" -> "n" [] c = "O" -> "o" [] c = "P" -> "p"
          [] c = "Q" -> "q" [] c = "R" -> "r" [] c = "S" -> "s"
          [] c = "T" -> "t" [] c = "U" -> "u" [] c = "Y" -> "y"]

LowerChar(c) == IF c \in DOMAIN UpperToLower THEN UpperToLower[c] ELSE c

lower(s) == [i \in 1..Len(s) |-> LowerChar(s[i])]

RECURSIVE lstrip(_)
lstrip(s) ==
    IF s # <<>> /\ Head(s) \in Whitespace THEN lstrip(Tail(s)) ELSE s

RECURSIVE rstrip(_)
rstrip(s) ==
    IF s # <<>> /\ s[Len(s)] \in Whitespace
    THEN rstrip(SubSeq(s, 1, Len(s) - 1))
    ELSE s

strip(s) == rstrip(lstrip(s))

(***************************************************************************)
(* classify_message                                                        *)
(***************************************************************************)
supply == <<"s", "u", "p", "p", "l", "y">>
sale == <<"s", "a", "l", "e">>
preorder == <<"p", "r", "e", "o", "r", "d", "e", "r">>
client_edit == <<"c", "l", "i", "e", "n", "t", "_", "e", "d", "i", "t">>
query == <<"q", "u", "e", "r", "y">>

\* The list literal of the return statement.
Labels == {supply, sale, preorder, client_edit, query}



\* Faulty variant: the classification is returned without the membership test.
classify_message_try_unchecked(out) ==
    IF out.kind = "raise" THEN Raise("APIError")
    ELSE IF out.kind = "nochoices" THEN Raise("IndexError")
    ELSE IF out.content = PyNone THEN Raise("AttributeError")
    ELSE Value(PyStr(lower(strip(out.content.s))))

\* try-body of classify_message, given what the awaited call did.
classify_message_try(out) ==
    IF out.kind = "raise" THEN Raise("APIError")
    ELSE IF out.kind = "nochoices" THEN Raise("IndexError")
    ELSE IF out.content = PyNone THEN Raise("AttributeError")
    ELSE LET classification == lower(strip(out.content.s))
         IN  Value(PyStr(IF classification \in Labels
                         THEN classification
                         ELSE supply))

\* Faulty variant: no except clause around the try-body.
classify_message_no_except(out) == classify_message_try(out)

\* classify_message from the await on: the try-body and its except clause.
classify_message(out) ==
    LET r == classify_message_try(out)
    IN  IF r.ok THEN r
        ELSE IF ExceptException(r.exc) THEN Value(PyStr(supply))
        ELSE r

(***************************************************************************)
(* Reading the structured response: json.loads and pydantic validation     *)
(***************************************************************************)

(***************************************************************************)
(* transcribe_audio                                                        *)
(***************************************************************************)
\* The body of the try block.  open() raises OSError; the call raises; the
\* transcript has no text attribute; text is None and text[:100] raises
\* TypeError; otherwise text is returned as it is.
transcribe_audio_try(out) ==
    CASE out.kind = "open_raise" -> Raise("OSError")
      [] out.kind = "raise" -> Raise("APIError")
      [] out.kind = "transcript" ->
            IF "text" \notin DOMAIN out.transcript
            THEN Raise("AttributeError")
            ELSE IF out.transcript.text = PyNone
            THEN Raise("TypeError")
            ELSE Value(out.transcript.text)

\* Faulty variant: the method has no except clause.
transcribe_audio_no_except(out) == transcribe_audio_try(out)

transcribe_audio(out) ==
    LET r == transcribe_audio_try(out)
    IN  IF r.ok THEN r
        ELSE IF ExceptException(r.exc) THEN Value(PyNone) ELSE r

\* The content of a response that is text but not a JSON document.
NotJson == [t |-> "notjson"]

\* json.loads(response.choices[0].message.content).  A text is held as the
\* document it spells, so decoding a well-formed text yields that document.
json_loads(out) ==
    IF out.kind = "raise" THEN Raise("APIError")
    ELSE IF out.kind = "nochoices" THEN Raise("IndexError")
    ELSE IF out.content = PyNone THEN Raise("TypeError")
    ELSE IF out.content.doc = NotJson THEN Raise("JSONDecodeError")
    ELSE Value(out.content.doc)

\* Strings that pydantic coerces to a number, and int()/float() of each.
StrToInt == [s \in {"0", "2"} |-> IF s = "0" THEN 0 ELSE 2]

IsNumber(v) == v.t = "num" \/ (v.t = "str" /\ v.s \in DOMAIN StrToInt)

ToNumber(v) == IF v.t = "num" THEN v.n ELSE StrToInt[v.s]

\* A required str field.
IsStrField(o, k) == k \in DOMAIN o /\ o[k].t = "str"

\* An Optional[str] field with default None.
IsOptStrField(o, k) == k \in DOMAIN o => o[k].t \in {"str", "null"}

OptStrField(o, k) ==
    IF k \in DOMAIN o /\ o[k].t = "str" THEN PyStr(o[k].s) ELSE PyNone

\* A float field with default 0.
IsFloatDefaultField(o, k) == k \in DOMAIN o => IsNumber(o[k])

FloatDefaultField(o, k) == IF k \in DOMAIN o THEN ToNumber(o[k]) ELSE 0

(***************************************************************************)
(* parse_supply                                                            *)
(***************************************************************************)

\* Faulty variant: the quantity constraint is ge=0.
SupplyItem_quantity_ge0(n) == n >= 0

\* SupplyItem.quantity: Field(gt=0).
SupplyItem_quantity(n) == n > 0

SupplyItem_valid(v) ==
    /\ v.t = "obj"
    /\ IsStrField(v.o, "name")
    /\ IsStrField(v.o, "size")
    /\ "quantity" \in DOMAIN v.o
    /\ IsNumber(v.o.quantity)
    /\ SupplyItem_quantity(ToNumber(v.o.quantity))
    /\ IsFloatDefaultField(v.o, "price")
    /\ IsFloatDefaultField(v.o, "purchase_price")


\* Faulty variant: the two prices are read from each other's key.
SupplyItem_swapped(v) ==
    [name |-> v.o.name.s,
     size |-> v.o.size.s,
     quantity |-> ToNumber(v.o.quantity),
     price |-> FloatDefaultField(v.o, "purchase_price"),
     purchase_price |-> FloatDefaultField(v.o, "price")]

SupplyItem(v) ==
    [name |-> v.o.name.s,
     size |-> v.o.size.s,
     quantity |-> ToNumber(v.o.quantity),
     price |-> FloatDefaultField(v.o, "price"),
     purchase_price |-> FloatDefaultField(v.o, "purchase_price")]


\* Faulty variant: the item list has min_length=1.
SupplyData_valid_nonempty(o) ==
    /\ "items" \in DOMAIN o
    /\ o.items.t = "arr"
    /\ Len(o.items.a) > 0
    /\ \A i \in 1..Len(o.items.a) : SupplyItem_valid(o.items.a[i])

SupplyData_valid(o) ==
    /\ "items" \in DOMAIN o
    /\ o.items.t = "arr"
    /\ \A i \in 1..Len(o.items.a) : SupplyItem_valid(o.items.a[i])

SupplyData(o) ==
    [t |-> "SupplyData",
     items |-> [i \in 1..Len(o.items.a) |-> SupplyItem(o.items.a[i])]]

parse_supply_try(out) ==
    LET result == json_loads(out)
    IN  IF ~result.ok THEN result
        ELSE IF result.value.t # "obj" THEN Raise("TypeError")
        ELSE IF ~SupplyData_valid(result.value.o) THEN Raise("ValidationError")
        ELSE Value(SupplyData(result.value.o))

parse_supply(out) ==
    LET r == parse_supply_try(out)
    IN  IF r.ok THEN r
        ELSE IF ExceptException(r.exc) THEN Value(PyNone)
        ELSE r


(***************************************************************************)
(* parse_sale                                                              *)
(***************************************************************************)
ClientInfo_valid(v) ==
    /\ v.t = "obj"
    /\ IsStrField(v.o, "name")
    /\ IsOptStrField(v.o, "instagram")
    /\ IsOptStrField(v.o, "telegram")
    /\ IsOptStrField(v.o, "notes")

ClientInfo(v) ==
    [name |-> v.o.name.s,
     instagram |-> OptStrField(v.o, "instagram"),
     telegram |-> OptStrField(v.o, "telegram"),
     notes |-> OptStrField(v.o, "notes")]

\* SaleInfo.quantity: Field(gt=0).
SaleInfo_quantity(n) == n > 0


\* Faulty variant: the price constraint is ge=0.
SaleInfo_price_ge0(o) ==
    "price" \in DOMAIN o /\ IsNumber(o.price) /\ ToNumber(o.price) >= 0

\* Faulty variant: the price field has no constraint.
SaleInfo_price_unconstrained(o) == "price" \in DOMAIN o /\ IsNumber(o.price)

\* SaleInfo.price: Field(gt=0), no default.
SaleInfo_price(o) ==
    "price" \in DOMAIN o /\ IsNumber(o.price) /\ ToNumber(o.price) > 0

SaleInfo_valid(v) ==
    /\ v.t = "obj"
    /\ IsStrField(v.o, "item_name")
    /\ IsStrField(v.o, "size")
    /\ "quantity" \in DOMAIN v.o
    /\ IsNumber(v.o.quantity)
    /\ SaleInfo_quantity(ToNumber(v.o.quantity))
    /\ SaleInfo_price(v.o)

SaleInfo(v) ==
    [item_name |-> v.o.item_name.s,
     size |-> v.o.size.s,
     quantity |-> ToNumber(v.o.quantity),
     price |-> ToNumber(v.o.price)]

ReminderInfo_valid(v) ==
    /\ v.t = "obj"
    /\ "days_from_now" \in DOMAIN v.o
    /\ IsNumber(v.o.days_from_now)
    /\ IsStrField(v.o, "text")

ReminderInfo(v) ==
    [t |-> "ReminderInfo",
     days_from_now |-> ToNumber(v.o.days_from_now),
     text |-> v.o.text.s]

SaleData_valid(o) ==
    /\ "client" \in DOMAIN o
    /\ ClientInfo_valid(o.client)
    /\ "items" \in DOMAIN o
    /\ o.items.t = "arr"
    /\ \A i \in 1..Len(o.items.a) : SaleInfo_valid(o.items.a[i])
    /\ ("reminder" \in DOMAIN o /\ o.reminder # JNull)
           => ReminderInfo_valid(o.reminder)

SaleData(o) ==
    [t |-> "SaleData",
     client |-> ClientInfo(o.client),
     items |-> [i \in 1..Len(o.items.a) |-> SaleInfo(o.items.a[i])],
     reminder |-> IF "reminder" \in DOMAIN o /\ o.reminder # JNull
                  THEN ReminderInfo(o.reminder)
                  ELSE PyNone]

parse_sale_try(out) ==
    LET result == json_loads(out)
    IN  IF ~result.ok THEN result
        ELSE IF result.value.t # "obj" THEN Raise("TypeError")
        ELSE IF ~SaleData_valid(result.value.o) THEN Raise("ValidationError")
        ELSE Value(SaleData(result.value.o))

parse_sale(out) ==
    LET r == parse_sale_try(out)
    IN  IF r.ok THEN r
        ELSE IF ExceptException(r.exc) THEN Value(PyNone)
        ELSE r

(***************************************************************************)
(* parse_client_edit                                                       *)
(***************************************************************************)

\* Faulty variant: client_name has min_length=1.
ClientEditData_valid_nonempty(o) ==
    /\ IsStrField(o, "client_name")
    /\ o.client_name.s # ""
    /\ IsStrField(o, "notes")

ClientEditData_valid(o) ==
    /\ IsStrField(o, "client_name")
    /\ IsStrField(o, "notes")

ClientEditData(o) ==
    [t |-> "ClientEditData",
     client_name |-> o.client_name.s,
     notes |-> o.notes.s]

parse_client_edit_try(out) ==
    LET result == json_loads(out)
    IN  IF ~result.ok THEN result
        ELSE IF result.value.t # "obj" THEN Raise("TypeError")
        ELSE IF ~ClientEditData_valid(result.value.o)
        THEN Raise("ValidationError")
        ELSE Value(ClientEditData(result.value.o))

parse_client_edit(out) ==
    LET r == parse_client_edit_try(out)
    IN  IF r.ok THEN r
        ELSE IF ExceptException(r.exc) THEN Value(PyNone)
        ELSE r

(***************************************************************************)
(* parse_preorder                                                          *)
(***************************************************************************)

\* Faulty variant: the quantity constraint is ge=0.
PreorderItem_quantity_ge0(n) == n >= 0

\* PreorderItem.quantity: Field(gt=0).
PreorderItem_quantity(n) == n > 0

PreorderItem_valid(v) ==
    /\ v.t = "obj"
    /\ IsStrField(v.o, "item_name")
    /\ "quantity" \in DOMAIN v.o
    /\ IsNumber(v.o.quantity)
    /\ PreorderItem_quantity(ToNumber(v.o.quantity))
    /\ IsOptStrField(v.o, "description")

PreorderItem(v) ==
    [item_name |-> v.o.item_name.s,
     quantity |-> ToNumber(v.o.quantity),
     description |-> OptStrField(v.o, "description")]

PreorderData_valid(o) ==
    /\ IsStrField(o, "client_name")
    /\ "items" \in DOMAIN o
    /\ o.items.t = "arr"
    /\ \A i \in 1..Len(o.items.a) : PreorderItem_valid(o.items.a[i])
    /\ IsOptStrField(o, "notes")

PreorderData(o) ==
    [t |-> "PreorderData",
     client_name |-> o.client_name.s,
     items |-> [i \in 1..Len(o.items.a) |-> PreorderItem(o.items.a[i])],
     notes |-> OptStrField(o, "notes")]

parse_preorder_try(out) ==
    LET result == json_loads(out)
    IN  IF ~result.ok THEN result
        ELSE IF result.value.t # "obj" THEN Raise("TypeError")
        ELSE IF ~PreorderData_valid(result.value.o)
        THEN Raise("ValidationError")
        ELSE Value(PreorderData(result.value.o))

parse_preorder(out) ==
    LET r == parse_preorder_try(out)
    IN  IF r.ok THEN r
        ELSE IF ExceptException(r.exc) THEN Value(PyNone)
        ELSE r

(***************************************************************************)
(* What the caller passes in and what the external service may do          *)
(***************************************************************************)
Texts == {"utterance 1", "utterance 2"}

Vocabularies ==
    {<<>>, <<"Black Mesh Briefs">>, <<"Black Mesh Briefs", "Beige Mesh Top">>}

\* All sequences over S of length at most n.
SeqUpTo(S, n) == UNION {[1..k -> S] : k \in 0..n}

\* Record o without key k: a JSON object that lacks the key.
Without(o, k) == [x \in DOMAIN o \ {k} |-> o[x]]

\* The call raises, the response has no choices, or its message has no
\* content (a refusal).
NoContent ==
    {[kind |-> "raise"], [kind |-> "nochoices"],
     [kind |-> "content", content |-> PyNone]}

\* A response whose content is the text of document d.
Text(d) == [kind |-> "content", content |-> [t |-> "text", doc |-> d]]

\* Documents that are not what any extractor's schema asks for.
WrongDocs ==
    {NotJson, JNull, JNum(1), JArr(<<>>), JObj([error |-> JStr("x")])}

LowerToUpper ==
    [c \in {"a", "c", "d", "e", "i", "l", "n", "o", "p", "q", "r", "s",
            "t", "u", "y"} |->
        CHOOSE u \in DOMAIN UpperToLower : UpperToLower[u] = c]

upper(s) ==
    [i \in 1..Len(s) |->
        IF s[i] \in DOMAIN LowerToUpper THEN LowerToUpper[s[i]] ELSE s[i]]

capitalize(s) == IF s = <<>> THEN s ELSE upper(<<Head(s)>>) \o Tail(s)

\* Words the classifier model may answer with: the labels and others.
Words ==
    Labels \cup
    {<<>>, <<"s", "a", "l", "e", "s">>, <<"s", "a", "l", "e", ".">>,
     <<"c", "l", "i", "e", "n", "t", " ", "e", "d", "i", "t">>}

\* Each word in three casings, with or without surrounding whitespace.
Tokens ==
    {l \o w \o r :
        l \in {<<>>, <<" ">>},
        w \in UNION {{x, upper(x), capitalize(x)} : x \in Words},
        r \in {<<>>, <<"\n">>}}

ClassifyOutcomes ==
    NoContent \cup {[kind |-> "content", content |-> PyStr(k)] : k \in Tokens}

SupplyItemGood ==
    [name |-> JStr("Black Mesh Briefs"), size |-> JStr("M"),
     quantity |-> JNum(2), price |-> JNum(3), purchase_price |-> JNum(1)]

SupplyItemDocs ==
    {JObj(SupplyItemGood),
     JObj([name |-> JStr("Beige Mesh Top"), size |-> JStr("L"),
           quantity |-> JNum(1), price |-> JNum(0),
           purchase_price |-> JNum(5)]),
     JStr("Black Mesh Briefs")}
    \cup {JObj([SupplyItemGood EXCEPT !.quantity = q]) :
            q \in {JNum(0), JNum(-1), JStr("2"), JStr("two")}}
    \cup {JObj([SupplyItemGood EXCEPT !.price = x]) :
            x \in {JNum(-1), JNull}}
    \cup {JObj([SupplyItemGood EXCEPT !.purchase_price = JNum(-1)]),
          JObj([SupplyItemGood EXCEPT !.price = JNum(0),
                                      !.purchase_price = JNum(0)])}
    \cup {JObj(Without(SupplyItemGood, k)) :
            k \in {"name", "price", "purchase_price"}}
    \cup {JObj(Without(Without(SupplyItemGood, "price"), "purchase_price"))}

SupplyOutcomes(n) ==
    NoContent
    \cup {Text(d) : d \in WrongDocs \cup {JObj([items |-> JNull])}}
    \cup {Text(JObj([items |-> JArr(a)])) : a \in SeqUpTo(SupplyItemDocs, n)}

Dates == {"2024-01-15", "2024-02-29"}

ClientGood ==
    [name |-> JStr("Anna"), instagram |-> JNull, telegram |-> JNull,
     notes |-> JNull]

SaleClientDocs ==
    {JObj(ClientGood),
     JObj([ClientGood EXCEPT !.name = JStr("")]),
     JObj([ClientGood EXCEPT !.instagram = JStr("anna_ig"),
                             !.notes = JStr("wants a beige top L")]),
     JObj(Without(ClientGood, "name")),
     JNull}

SaleItemGood ==
    [item_name |-> JStr("Black Mesh Briefs"), size |-> JStr("M"),
     quantity |-> JNum(1), price |-> JNum(40)]

SaleItemDocs ==
    {JObj(SaleItemGood),
     JObj([item_name |-> JStr("Beige Mesh Top"), size |-> JStr("L"),
           quantity |-> JNum(2), price |-> JStr("2")]),
     JObj([SaleItemGood EXCEPT !.quantity = JNum(0)])}
    \cup {JObj([SaleItemGood EXCEPT !.price = x]) :
            x \in {JNum(0), JNum(-1), JNull}}
    \cup {JObj(Without(SaleItemGood, k)) : k \in {"item_name", "price"}}

SaleReminderDocs ==
    {JNull,
     JObj([days_from_now |-> JNum(3), text |-> JStr("call back")]),
     JObj([text |-> JStr("call back")])}

SaleOutcomes(n) ==
    NoContent
    \cup {Text(d) : d \in WrongDocs \cup {JObj([client |-> JObj(ClientGood),
                                                reminder |-> JNull])}}
    \cup {Text(JObj([client |-> c, items |-> JArr(a), reminder |-> r])) :
            c \in SaleClientDocs, a \in SeqUpTo(SaleItemDocs, n),
            r \in SaleReminderDocs}
    \cup {Text(JObj([client |-> c, items |-> JArr(a)])) :
            c \in SaleClientDocs, a \in SeqUpTo(SaleItemDocs, n)}

NameDocs == {JStr("Anna"), JStr(""), JNull}

NotesDocs == {JStr("likes red"), JStr(""), JNull}

ClientEditOutcomes ==
    NoContent
    \cup {Text(d) : d \in WrongDocs}
    \cup {Text(JObj([client_name |-> c, notes |-> m])) :
            c \in NameDocs, m \in NotesDocs}
    \cup {Text(JObj([client_name |-> c])) : c \in NameDocs}
    \cup {Text(JObj([notes |-> m])) : m \in NotesDocs}
    \cup {Text(JObj([client_name |-> JStr("Anna"), notes |-> JStr("likes red"),
                     extra |-> JNum(1)]))}

PreorderItemGood ==
    [item_name |-> JStr("Beige Swimsuit"), quantity |-> JNum(3),
     description |-> JNull]

PreorderItemDocs ==
    {JObj(PreorderItemGood),
     JObj([PreorderItemGood EXCEPT !.quantity = JNum(1),
                                   !.description = JStr("size M")]),
     JObj([PreorderItemGood EXCEPT !.quantity = JNum(0)]),
     JObj(Without(PreorderItemGood, "description")),
     JObj(Without(PreorderItemGood, "item_name"))}

PreorderOutcomes(n) ==
    NoContent
    \cup {Text(d) : d \in WrongDocs \cup {JObj([client_name |-> JStr("Anna"),
                                                notes |-> JNull])}}
    \cup {Text(JObj([client_name |-> c, items |-> JArr(a), notes |-> m])) :
            c \in NameDocs, a \in SeqUpTo(PreorderItemDocs, n),
            m \in {JNull, JStr("pick up on Friday")}}
    \cup {Text(JObj([items |-> JArr(a), notes |-> JNull])) :
            a \in SeqUpTo(PreorderItemDocs, n)}

(***************************************************************************)
(* The coroutines                                                          *)
(***************************************************************************)

\* Paths the caller passes, and what the transcription service answers: the
\* call raises, the transcript carries no text, text is None, the text is
\* empty, the text is an utterance.
AudioFiles == {"voice_1.ogg", "voice_2.ogg"}

TranscribeOutcomes ==
    {[kind |-> "raise"],
     [kind |-> "transcript", transcript |-> [duration |-> 3]],
     [kind |-> "transcript", transcript |-> [text |-> PyNone]],
     [kind |-> "transcript", transcript |-> [text |-> PyStr(<<>>)]],
     [kind |-> "transcript", transcript |-> [text |-> PyStr(sale)]]}

\* calls counts the external calls the invocation has issued; args are the
\* arguments the method was called with.
Idle ==
    [pc |-> "idle", op |-> "none", args |-> [t |-> "none"],
     request |-> [t |-> "none"], calls |-> 0,
     out |-> [kind |-> "none"], result |-> [t |-> "none"], exc |-> "none"]

Init ==
    /\ task = [t \in Tasks |-> Idle]
    /\ existing_products \in Vocabularies
    /\ service = 0

\* The lines of products_context.
products_context(products) ==
    IF products # <<>>
    THEN [i \in 1..Len(products) |-> <<"- ", products[i]>>]
    ELSE <<<<"No existing products">>>>

\* task once coroutine t is suspended in
\* `await client.chat.completions.create(...)` with this request.
Suspended(t, op, args, request) ==
    [task EXCEPT ![t] =
        [Idle EXCEPT !.pc = "awaiting", !.op = op, !.args = args,
                     !.request = request, !.calls = task[t].calls + 1]]


\* Faulty variant: a call that raised is issued once more before giving up.
Ended_retry(t, out, r) ==
    [task EXCEPT ![t] =
        IF out.kind = "raise" /\ task[t].calls < 2
        THEN [@ EXCEPT !.calls = @ + 1]
        ELSE IF r.ok
        THEN [@ EXCEPT !.pc = "returned", !.out = out, !.result = r.value]
        ELSE [@ EXCEPT !.pc = "raised", !.out = out, !.exc = r.exc]]


\* Faulty variant: the methods share an in-flight flag, and an invocation
\* that ends while another one is suspended gives up.
Ended_shared(t, out, r) ==
    [task EXCEPT ![t] =
        IF \E u \in DOMAIN task \ {t} : task[u].pc = "awaiting"
        THEN [@ EXCEPT !.pc = "returned", !.out = out, !.result = PyNone]
        ELSE IF r.ok
        THEN [@ EXCEPT !.pc = "returned", !.out = out, !.result = r.value]
        ELSE [@ EXCEPT !.pc = "raised", !.out = out, !.exc = r.exc]]

\* task once coroutine t has resumed with outcome `out` of the call and
\* ended with r: a returned value or an exception that leaves the method.
Ended(t, out, r) ==
    [task EXCEPT ![t] =
        IF r.ok
        THEN [@ EXCEPT !.pc = "returned", !.out = out, !.result = r.value]
        ELSE [@ EXCEPT !.pc = "raised", !.out = out, !.exc = r.exc]]

Awaiting(t, op) == task[t].pc = "awaiting" /\ task[t].op = op

classify_message_await(t) ==
    /\ task[t].pc = "idle"
    /\ \E text \in Texts :
        task' = Suspended(t, "classify_message", [text |-> text],
                          [model |-> "gpt-4o-mini", prompt |-> "classify",
                           user |-> text])
    /\ UNCHANGED <<existing_products, service>>

classify_message_resume(t) ==
    /\ Awaiting(t, "classify_message")
    /\ \E out \in ClassifyOutcomes :
        task' = Ended(t, out, classify_message(out))
    /\ UNCHANGED <<existing_products, service>>

parse_supply_await(t) ==
    /\ task[t].pc = "idle"
    /\ \E text \in Texts :
        task' = Suspended(t, "parse_supply",
                          [text |-> text,
                           existing_products |-> existing_products],
                          [model |-> "gpt-4o-mini", prompt |-> "supply",
                           products_context |->
                               products_context(existing_products),
                           user |-> text])
    /\ UNCHANGED <<existing_products, service>>

parse_supply_resume(t, n) ==
    /\ Awaiting(t, "parse_supply")
    /\ \E out \in SupplyOutcomes(n) :
        task' = Ended(t, out, parse_supply(out))
    /\ UNCHANGED <<existing_products, service>>

parse_sale_await(t) ==
    /\ task[t].pc = "idle"
    /\ \E text \in Texts, current_date \in Dates :
        task' = Suspended(t, "parse_sale",
                          [text |-> text, current_date |-> current_date,
                           existing_products |-> existing_products],
                          [model |-> "gpt-4o-mini", prompt |-> "sale",
                           current_date |-> current_date,
                           products_context |->
                               products_context(existing_products),
                           user |-> text])
    /\ UNCHANGED <<existing_products, service>>

parse_sale_resume(t, n) ==
    /\ Awaiting(t, "parse_sale")
    /\ \E out \in SaleOutcomes(n) :
        task' = Ended(t, out, parse_sale(out))
    /\ UNCHANGED <<existing_products, service>>

parse_client_edit_await(t) ==
    /\ task[t].pc = "idle"
    /\ \E text \in Texts :
        task' = Suspended(t, "parse_client_edit", [text |-> text],
                          [model |-> "gpt-4o-mini", prompt |-> "client_edit",
                           user |-> text])
    /\ UNCHANGED <<existing_products, service>>

parse_client_edit_resume(t) ==
    /\ Awaiting(t, "parse_client_edit")
    /\ \E out \in ClientEditOutcomes :
        task' = Ended(t, out, parse_client_edit(out))
    /\ UNCHANGED <<existing_products, service>>

parse_preorder_await(t) ==
    /\ task[t].pc = "idle"
    /\ \E text \in Texts :
        task' = Suspended(t, "parse_preorder", [text |-> text],
                          [model |-> "gpt-4o-mini", prompt |-> "preorder",
                           user |-> text])
    /\ UNCHANGED <<existing_products, service>>

parse_preorder_resume(t, n) ==
    /\ Awaiting(t, "parse_preorder")
    /\ \E out \in PreorderOutcomes(n) :
        task' = Ended(t, out, parse_preorder(out))
    /\ UNCHANGED <<existing_products, service>>


\* open() failed: the method ends before any call is made.
NotOpened(t, audio_file_path) ==
    LET out == [kind |-> "open_raise"]
        r == transcribe_audio(out)
        started == [Idle EXCEPT !.op = "transcribe_audio",
                                !.args = [audio_file_path |-> audio_file_path],
                                !.out = out]
    IN  [task EXCEPT ![t] =
            IF r.ok
            THEN [started EXCEPT !.pc = "returned", !.result = r.value]
            ELSE [started EXCEPT !.pc = "raised", !.exc = r.exc]]

transcribe_audio_await(t) ==
    /\ task[t].pc = "idle"
    /\ \E audio_file_path \in AudioFiles, opened \in BOOLEAN :
        task' = IF opened
                THEN Suspended(t, "transcribe_audio",
                               [audio_file_path |-> audio_file_path],
                               [model |-> "whisper-1",
                                file |-> audio_file_path,
                                response_format |-> "json"])
                ELSE NotOpened(t, audio_file_path)
    /\ UNCHANGED <<existing_products, service>>

transcribe_audio_resume(t) ==
    /\ Awaiting(t, "transcribe_audio")
    /\ \E out \in TranscribeOutcomes :
        task' = Ended(t, out, transcribe_audio(out))
    /\ UNCHANGED <<existing_products, service>>

\* The caller takes the result (or the exception); the task is free again.
Done(t) ==
    /\ task[t].pc \in {"returned", "raised"}
    /\ task' = [task EXCEPT ![t] = Idle]
    /\ UNCHANGED <<existing_products, service>>


\* Faulty variant: the request in flight is a view of the caller's list, so
\* a change of the list shows in it.
Refresh_aliased ==
    /\ existing_products' \in Vocabularies \ {existing_products}
    /\ task' = [t \in Tasks |->
                   IF /\ task[t].pc = "awaiting"
                      /\ task[t].op \in {"parse_supply", "parse_sale"}
                   THEN [task[t] EXCEPT !.request.products_context =
                                            products_context(existing_products')]
                   ELSE task[t]]
    /\ UNCHANGED service

\* The caller refreshes its inventory: the list changes in place, whatever
\* the coroutines are doing.
Refresh ==
    /\ existing_products' \in Vocabularies \ {existing_products}
    /\ UNCHANGED <<task, service>>

Next ==
    \/ Refresh
    \/ \E t \in Tasks :
        \/ transcribe_audio_await(t)
        \/ transcribe_audio_resume(t)
        \/ classify_message_await(t)
        \/ classify_message_resume(t)
        \/ parse_supply_await(t)
        \/ parse_supply_resume(t, MaxItems)
        \/ parse_sale_await(t)
        \/ parse_sale_resume(t, MaxItems)
        \/ parse_client_edit_await(t)
        \/ parse_client_edit_resume(t)
        \/ parse_preorder_await(t)
        \/ parse_preorder_resume(t, MaxItems)
        \/ Done(t)

Spec == Init /\ [][Next]_vars

(***************************************************************************)
(* Two callers against a deterministic service                             *)
(***************************************************************************)
\* The same methods, called by two coroutines at once, against a service
\* that answers a request by the request alone.  service selects one of
\* MaxSeed + 1 such services.
MaxSeed == 2

Callers == {"t1", "t2"}

\* What the service may answer to each method: the call raises, a document
\* the method accepts, another document.
ServiceAnswers(op) ==
    CASE op = "classify_message" ->
            <<[kind |-> "raise"],
              [kind |-> "content",
               content |-> PyStr(<<" ">> \o capitalize(sale) \o <<"\n">>)],
              [kind |-> "content", content |-> PyStr(query)]>>
      [] op = "parse_supply" ->
            <<[kind |-> "raise"],
              Text(JObj([items |-> JArr(<<JObj(SupplyItemGood)>>)])),
              Text(JObj([items |-> JArr(<<>>)]))>>
      [] op = "parse_sale" ->
            <<[kind |-> "raise"],
              Text(JObj([client |-> JObj(ClientGood),
                         items |-> JArr(<<JObj(SaleItemGood)>>),
                         reminder |-> JNull])),
              Text(NotJson)>>
      [] op = "parse_client_edit" ->
            <<[kind |-> "raise"],
              Text(JObj([client_name |-> JStr("Anna"),
                         notes |-> JStr("likes red")])),
              Text(JObj([client_name |-> JStr("Anna")]))>>
      [] op = "parse_preorder" ->
            <<[kind |-> "raise"],
              Text(JObj([client_name |-> JStr("Anna"),
                         items |-> JArr(<<JObj(PreorderItemGood)>>),
                         notes |-> JNull])),
              Text(JNull)>>

\* A number the service derives from the content of a request.
RequestWeight(request) ==
    (IF request.user = "utterance 1" THEN 0 ELSE 1)
    + (IF "products_context" \in DOMAIN request
       THEN IF request.products_context = products_context(<<>>)
            THEN 0 ELSE Len(request.products_context)
       ELSE 0)
    + (IF "current_date" \in DOMAIN request
       THEN IF request.current_date = "2024-01-15" THEN 0 ELSE 1
       ELSE 0)

\* The answer of service number seed to a request of method op.
Service(seed, op, request) ==
    LET answers == ServiceAnswers(op)
    IN  answers[((seed + RequestWeight(request)) % Len(answers)) + 1]

\* What method op makes of the outcome of its call.
Method(op, out) ==
    CASE op = "classify_message" -> classify_message(out)
      [] op = "parse_supply" -> parse_supply(out)
      [] op = "parse_sale" -> parse_sale(out)
      [] op = "parse_client_edit" -> parse_client_edit(out)
      [] op = "parse_preorder" -> parse_preorder(out)

\* The call of a suspended invocation comes back with the service's answer.
Resume(t) ==
    /\ task[t].pc = "awaiting"
    /\ task' = Ended(t, Service(service, task[t].op, task[t].request),
                     Method(task[t].op,
                            Service(service, task[t].op, task[t].request)))
    /\ UNCHANGED <<existing_products, service>>

InitConcurrent ==
    /\ task = [t \in Callers |-> Idle]
    /\ existing_products \in Vocabularies
    /\ service \in 0..MaxSeed

NextConcurrent ==
    \/ Refresh
    \/ \E t \in Callers :
        \/ classify_message_await(t)
        \/ parse_supply_await(t)
        \/ parse_sale_await(t)
        \/ parse_client_edit_await(t)
        \/ parse_preorder_await(t)
        \/ Resume(t)
        \/ Done(t)

SpecConcurrent == InitConcurrent /\ [][NextConcurrent]_vars


(***************************************************************************)
(* Properties                                                              *)
(***************************************************************************)
\* Task t has ended an invocation of op, by returning or by raising.
Finished(t, op) == task[t].op = op /\ task[t].pc \in {"returned", "raised"}

Returned(t, op) == task[t].op = op /\ task[t].pc = "returned"

\* The response held content that is the text of a JSON object.
IsObjectText(out) ==
    /\ out.kind = "content"
    /\ out.content # PyNone
    /\ out.content.doc # NotJson
    /\ out.content.doc.t = "obj"

\* The response is a JSON object with an array under "items".
HasItems(out) ==
    /\ IsObjectText(out)
    /\ "items" \in DOMAIN out.content.doc.o
    /\ out.content.doc.o.items.t = "arr"

ItemsOf(out) == out.content.doc.o.items.a

\* The classification call raised, or its response cannot be read.
Unreadable(out) ==
    out.kind \in {"raise", "nochoices"} \/ out.content = PyNone

\* C1: classify_message never fails outward: every invocation ends by
\* returning, and when the classification call raised or its response could
\* not be read, the returned intent is exactly "supply".
C1_ClassifyNeverFails ==
    \A t \in Tasks :
        Finished(t, "classify_message") =>
            /\ task[t].pc = "returned"
            /\ Unreadable(task[t].out) => task[t].result = PyStr(supply)

C1_Witness ==
    \E t \in Tasks :
        /\ Returned(t, "classify_message")
        /\ task[t].out.kind = "raise"
        /\ task[t].result = PyStr(supply)

LacksPrice(v) ==
    /\ v.t = "obj"
    /\ \/ "price" \notin DOMAIN v.o
       \/ v.o.price = JNull
       \/ IsNumber(v.o.price) /\ ToNumber(v.o.price) <= 0

\* The response has an item list in which some item has no resolvable price.
MissingPrice(out) ==
    /\ HasItems(out)
    /\ \E i \in 1..Len(ItemsOf(out)) : LacksPrice(ItemsOf(out)[i])

\* C3: every line item of a successful parse_sale result has price > 0 and
\* quantity > 0, and a response with an item whose price is missing or not
\* greater than 0 never yields a record: the price is never defaulted.
C3_SalePricePositive ==
    \A t \in Tasks :
        Returned(t, "parse_sale") =>
            /\ task[t].result # PyNone =>
                   \A i \in 1..Len(task[t].result.items) :
                       /\ task[t].result.items[i].price > 0
                       /\ task[t].result.items[i].quantity > 0
            /\ MissingPrice(task[t].out) => task[t].result = PyNone

C3_Witness ==
    \E t \in Tasks :
        /\ Returned(t, "parse_sale")
        /\ task[t].result # PyNone
        /\ Len(task[t].result.items) >= 2
        /\ \A i \in 1..Len(task[t].result.items) :
               task[t].result.items[i].price > 0

\* Outcomes of the call that are a service error or a response that is not
\* of the required shape.
OtherFailures == NoContent \cup {Text(d) : d \in WrongDocs}

\* C4 as stated: a missing price is reported as a failure of its own kind,
\* which the caller can tell from the value returned for a service error or
\* a schema violation.
C4_MissingPriceDistinguishable ==
    \A t \in Tasks :
        (Returned(t, "parse_sale") /\ MissingPrice(task[t].out)) =>
            \A o \in OtherFailures : task[t].result # parse_sale(o).value

\* C4 amended: a missing price makes parse_sale return None, the very value
\* it returns for a service error or a response of the wrong shape.
C4_MissingPriceIsNone ==
    \A t \in Tasks :
        (Returned(t, "parse_sale") /\ MissingPrice(task[t].out)) =>
            /\ task[t].result = PyNone
            /\ \A o \in OtherFailures : parse_sale(o).value = task[t].result

\* A response that is well formed but for one item, whose price is 0.
C4_Witness ==
    \E t \in Tasks :
        /\ Returned(t, "parse_sale")
        /\ MissingPrice(task[t].out)
        /\ ClientInfo_valid(task[t].out.content.doc.o.client)
        /\ Len(ItemsOf(task[t].out)) = 1
        /\ ItemsOf(task[t].out)[1] =
               JObj([SaleItemGood EXCEPT !.price = JNum(0)])
        /\ task[t].result = PyNone

\* Item v of a response states a quantity, a number.
HasQuantity(v) ==
    v.t = "obj" /\ "quantity" \in DOMAIN v.o /\ IsNumber(v.o.quantity)

QuantityOf(v) == ToNumber(v.o.quantity)

\* Some item of the response has a quantity that is not greater than 0.
NonPositiveQuantity(out) ==
    /\ HasItems(out)
    /\ \E i \in 1..Len(ItemsOf(out)) :
           HasQuantity(ItemsOf(out)[i]) /\ QuantityOf(ItemsOf(out)[i]) <= 0

\* The response lists items with quantity <= 0 together with at least one
\* item with quantity > 0, and every item is valid but for its quantity.
MixedQuantities(out) ==
    /\ NonPositiveQuantity(out)
    /\ \E i \in 1..Len(ItemsOf(out)) :
           HasQuantity(ItemsOf(out)[i]) /\ QuantityOf(ItemsOf(out)[i]) > 0
    /\ \A i \in 1..Len(ItemsOf(out)) :
           /\ HasQuantity(ItemsOf(out)[i])
           /\ QuantityOf(ItemsOf(out)[i]) > 0
                  => SupplyItem_valid(ItemsOf(out)[i])
           /\ QuantityOf(ItemsOf(out)[i]) <= 0
                  => SupplyItem_valid(
                         JObj([ItemsOf(out)[i].o EXCEPT !.quantity = JNum(1)]))

PositiveQuantity(v) == QuantityOf(v) > 0

\* C5 as stated: items with quantity <= 0 are dropped and parse_supply
\* succeeds with exactly the remaining items, in order.
C5_ZeroQuantityExcluded ==
    \A t \in Tasks :
        (Returned(t, "parse_supply") /\ MixedQuantities(task[t].out)) =>
            LET kept == SelectSeq(ItemsOf(task[t].out), PositiveQuantity)
            IN  /\ task[t].result # PyNone
                /\ task[t].result.items =
                       [i \in 1..Len(kept) |-> SupplyItem(kept[i])]

\* C5 amended: parse_supply filters nothing.  A response with an item whose
\* quantity is <= 0 makes it return None whatever the other items are, and
\* a successful result holds every item of the response, in order, each with
\* quantity > 0.
C5_ZeroQuantityRejected ==
    \A t \in Tasks :
        Returned(t, "parse_supply") =>
            /\ NonPositiveQuantity(task[t].out) => task[t].result = PyNone
            /\ task[t].result # PyNone =>
                   /\ HasItems(task[t].out)
                   /\ Len(task[t].result.items) = Len(ItemsOf(task[t].out))
                   /\ \A i \in 1..Len(task[t].result.items) :
                          /\ task[t].result.items[i].quantity > 0
                          /\ task[t].result.items[i].quantity =
                                 QuantityOf(ItemsOf(task[t].out)[i])
                          /\ task[t].result.items[i].name =
                                 ItemsOf(task[t].out)[i].o.name.s
                          /\ task[t].result.items[i].size =
                                 ItemsOf(task[t].out)[i].o.size.s

C5_Witness ==
    \E t \in Tasks :
        /\ Returned(t, "parse_supply")
        /\ MixedQuantities(task[t].out)
        /\ task[t].result = PyNone

\* C6 as stated: a successful result of parse_supply has a non-empty item
\* list.
C6_SupplyNonEmpty ==
    \A t \in Tasks :
        (Returned(t, "parse_supply") /\ task[t].result # PyNone) =>
            Len(task[t].result.items) > 0

\* C6 amended: a response whose item list is empty yields a SupplyData with
\* an empty list, not a failure; parse_supply returns None when the response
\* object has no item list at all.
C6_SupplyMayBeEmpty ==
    \A t \in Tasks :
        Returned(t, "parse_supply") =>
            /\ (HasItems(task[t].out) /\ ItemsOf(task[t].out) = <<>>) =>
                   task[t].result = [t |-> "SupplyData", items |-> <<>>]
            /\ (IsObjectText(task[t].out) /\ ~HasItems(task[t].out)) =>
                   task[t].result = PyNone

C6_Witness ==
    \E t \in Tasks :
        /\ Returned(t, "parse_supply")
        /\ HasItems(task[t].out)
        /\ ItemsOf(task[t].out) = <<>>
        /\ task[t].result # PyNone
        /\ task[t].result.items = <<>>

\* The number under key k of response item v, 0 when the key is absent.
StatedOrZero(v, k) == IF k \in DOMAIN v.o THEN ToNumber(v.o[k]) ELSE 0

\* Some item of the response carries a negative sale or purchase price.
NegativePrice(out) ==
    /\ HasItems(out)
    /\ \E i \in 1..Len(ItemsOf(out)), k \in {"price", "purchase_price"} :
           /\ ItemsOf(out)[i].t = "obj"
           /\ k \in DOMAIN ItemsOf(out)[i].o
           /\ IsNumber(ItemsOf(out)[i].o[k])
           /\ ToNumber(ItemsOf(out)[i].o[k]) < 0

\* C7 as stated: in a successful result both prices of every item are >= 0,
\* each is 0 when absent from the response, and a response with a negative
\* price never yields a record.
C7_SupplyPricesNonNegative ==
    \A t \in Tasks :
        Returned(t, "parse_supply") =>
            /\ task[t].result # PyNone =>
                   \A i \in 1..Len(task[t].result.items) :
                       /\ task[t].result.items[i].price >= 0
                       /\ task[t].result.items[i].purchase_price >= 0
                       /\ task[t].result.items[i].price =
                              StatedOrZero(ItemsOf(task[t].out)[i], "price")
                       /\ task[t].result.items[i].purchase_price =
                              StatedOrZero(ItemsOf(task[t].out)[i],
                                           "purchase_price")
            /\ NegativePrice(task[t].out) => task[t].result = PyNone

\* C7 amended: in a successful result each price of every item is the number
\* the response states, 0 when the response states none (both may be 0);
\* neither price has a lower bound, so a negative price is kept as it is.
C7_SupplyPricesAsStated ==
    \A t \in Tasks :
        (Returned(t, "parse_supply") /\ task[t].result # PyNone) =>
            \A i \in 1..Len(task[t].result.items) :
                /\ task[t].result.items[i].price =
                       StatedOrZero(ItemsOf(task[t].out)[i], "price")
                /\ task[t].result.items[i].purchase_price =
                       StatedOrZero(ItemsOf(task[t].out)[i], "purchase_price")

\* A record with an item whose prices were both absent, and one with a
\* negative price.
C7_Witness ==
    \E t \in Tasks :
        /\ Returned(t, "parse_supply")
        /\ task[t].result # PyNone
        /\ Len(task[t].result.items) = 2
        /\ "price" \notin DOMAIN ItemsOf(task[t].out)[1].o
        /\ "purchase_price" \notin DOMAIN ItemsOf(task[t].out)[1].o
        /\ task[t].result.items[1].price = 0
        /\ task[t].result.items[1].purchase_price = 0
        /\ task[t].result.items[2].price < 0

\* The response gives no client name under key k: it is no JSON object, the
\* key is absent, or the value is null.
NameMissing(out, k) ==
    ~IsObjectText(out)
    \/ k \notin DOMAIN out.content.doc.o
    \/ out.content.doc.o[k] = JNull

NameMissingOrEmpty(out, k) ==
    NameMissing(out, k) \/ out.content.doc.o[k] = JStr("")

\* C8 as stated: parse_preorder fails whenever the client name is missing or
\* empty or the item list is empty; a successful record has a non-empty
\* client name and at least one item, each with quantity > 0.
C8_PreorderNameAndItems ==
    \A t \in Tasks :
        Returned(t, "parse_preorder") =>
            /\ NameMissingOrEmpty(task[t].out, "client_name")
                   => task[t].result = PyNone
            /\ (HasItems(task[t].out) /\ ItemsOf(task[t].out) = <<>>)
                   => task[t].result = PyNone
            /\ task[t].result # PyNone =>
                   /\ task[t].result.client_name # ""
                   /\ Len(task[t].result.items) >= 1
                   /\ \A i \in 1..Len(task[t].result.items) :
                          task[t].result.items[i].quantity > 0

\* C8 amended: parse_preorder fails whenever the response gives no client
\* name (key absent or null); an empty-string client name and an empty item
\* list are accepted; a successful record has the client name of the
\* response, possibly empty, and as many items as the response, possibly
\* none, each with quantity > 0.
C8_PreorderNameRequired ==
    \A t \in Tasks :
        Returned(t, "parse_preorder") =>
            /\ NameMissing(task[t].out, "client_name")
                   => task[t].result = PyNone
            /\ ( /\ HasItems(task[t].out)
                 /\ ItemsOf(task[t].out) = <<>>
                 /\ "client_name" \in DOMAIN task[t].out.content.doc.o
                 /\ task[t].out.content.doc.o.client_name = JStr("")
                 /\ IsOptStrField(task[t].out.content.doc.o, "notes") )
                   => /\ task[t].result # PyNone
                      /\ task[t].result.client_name = ""
                      /\ task[t].result.items = <<>>
            /\ task[t].result # PyNone =>
                   /\ task[t].result.client_name =
                          task[t].out.content.doc.o.client_name.s
                   /\ Len(task[t].result.items) = Len(ItemsOf(task[t].out))
                   /\ \A i \in 1..Len(task[t].result.items) :
                          task[t].result.items[i].quantity > 0

C8_Witness ==
    \E t \in Tasks :
        /\ Returned(t, "parse_preorder")
        /\ task[t].result # PyNone
        /\ task[t].result.client_name = ""
        /\ task[t].result.items = <<>>

\* C9 as stated: parse_client_edit fails exactly when the service call fails
\* or the client name is missing or empty, and otherwise succeeds with a
\* record whose client name is non-empty.
C9_ClientEditTwoFailures ==
    \A t \in Tasks :
        Returned(t, "parse_client_edit") =>
            /\ task[t].result = PyNone <=>
                   \/ task[t].out.kind = "raise"
                   \/ NameMissingOrEmpty(task[t].out, "client_name")
            /\ task[t].result # PyNone => task[t].result.client_name # ""

\* Both fields of a client edit are strings in the response.
BothStrings(out) ==
    /\ IsObjectText(out)
    /\ "client_name" \in DOMAIN out.content.doc.o
    /\ out.content.doc.o.client_name.t = "str"
    /\ "notes" \in DOMAIN out.content.doc.o
    /\ out.content.doc.o.notes.t = "str"

\* C9 amended: parse_client_edit returns None, the same value each time,
\* when the service call fails, when the response is not the text of a JSON
\* object, or when client_name or notes is missing or not a string; in every
\* other case it succeeds with the client name and notes of the response,
\* and the client name may be empty.
C9_ClientEditFailures ==
    \A t \in Tasks :
        Returned(t, "parse_client_edit") =>
            /\ task[t].result = PyNone <=> ~BothStrings(task[t].out)
            /\ task[t].result # PyNone =>
                   /\ task[t].result.client_name =
                          task[t].out.content.doc.o.client_name.s
                   /\ task[t].result.notes = task[t].out.content.doc.o.notes.s

C9_Witness ==
    \E t \in Tasks :
        /\ Returned(t, "parse_client_edit")
        /\ task[t].result # PyNone
        /\ task[t].result.client_name = ""

Extractors ==
    {"parse_supply", "parse_sale", "parse_preorder", "parse_client_edit"}

IsOptStr(x) == x = PyNone \/ (x.t = "str" /\ DOMAIN x = {"t", "s"})

\* r is a complete record of the model that op returns, every field set and
\* every constraint of the model met.
FullyValidated(op, r) ==
    CASE op = "parse_supply" ->
            /\ r.t = "SupplyData"
            /\ \A i \in 1..Len(r.items) :
                   /\ DOMAIN r.items[i] =
                          {"name", "size", "quantity", "price",
                           "purchase_price"}
                   /\ r.items[i].quantity \in Nat \ {0}
                   /\ r.items[i].price \in Int
                   /\ r.items[i].purchase_price \in Int
      [] op = "parse_sale" ->
            /\ r.t = "SaleData"
            /\ DOMAIN r.client = {"name", "instagram", "telegram", "notes"}
            /\ IsOptStr(r.client.instagram)
            /\ IsOptStr(r.client.telegram)
            /\ IsOptStr(r.client.notes)
            /\ \A i \in 1..Len(r.items) :
                   /\ DOMAIN r.items[i] =
                          {"item_name", "size", "quantity", "price"}
                   /\ r.items[i].quantity \in Nat \ {0}
                   /\ r.items[i].price \in Nat \ {0}
            /\ \/ r.reminder = PyNone
               \/ /\ DOMAIN r.reminder = {"t", "days_from_now", "text"}
                  /\ r.reminder.days_from_now \in Int
      [] op = "parse_preorder" ->
            /\ r.t = "PreorderData"
            /\ DOMAIN r = {"t", "client_name", "items", "notes"}
            /\ IsOptStr(r.notes)
            /\ \A i \in 1..Len(r.items) :
                   /\ DOMAIN r.items[i] =
                          {"item_name", "quantity", "description"}
                   /\ r.items[i].quantity \in Nat \ {0}
                   /\ IsOptStr(r.items[i].description)
      [] op = "parse_client_edit" ->
            /\ r.t = "ClientEditData"
            /\ DOMAIN r = {"t", "client_name", "notes"}

\* C10: whatever the external call does (raises, returns text that is not
\* JSON, returns JSON that violates the schema), every extractor ends by
\* returning, never by raising, and what it returns is None or a complete,
\* validated record.
C10_NoFaultEscapes ==
    \A t \in Tasks, op \in Extractors :
        Finished(t, op) =>
            /\ task[t].pc = "returned"
            /\ \/ task[t].result = PyNone
               \/ FullyValidated(op, task[t].result)

\* A schema violation ended in None.
C10_Witness ==
    \E t \in Tasks :
        /\ Returned(t, "parse_preorder")
        /\ IsObjectText(task[t].out)
        /\ ~PreorderData_valid(task[t].out.content.doc.o)
        /\ task[t].result = PyNone

\* The methods that call the chat-completion service.
ChatMethods == Extractors \cup {"classify_message"}

\* What a method yields when its external call has failed.
FailureValue(op) == IF op = "classify_message" THEN PyStr(supply) ELSE PyNone

\* An invocation of the classifier or of an extractor has issued exactly one
\* external call while it awaits and when it has ended, and a failed call
\* has ended in the method's failure value.
OneCall ==
    \A t \in Tasks :
        task[t].op \in ChatMethods =>
            /\ task[t].calls = 1
            /\ (Finished(t, task[t].op) /\ task[t].out.kind = "raise") =>
                   /\ task[t].pc = "returned"
                   /\ task[t].result = FailureValue(task[t].op)

\* The step a suspended invocation takes when its call comes back ends the
\* invocation: no further call, the same method, the same request.
EndsAfterCall ==
    \A t \in Tasks :
        (task[t].pc = "awaiting" /\ task'[t] # task[t]) =>
            /\ task'[t].pc \in {"returned", "raised"}
            /\ task'[t].calls = task[t].calls
            /\ task'[t].op = task[t].op
            /\ task'[t].request = task[t].request

\* C11: no retry inside the core.  Every invocation of classify_message or
\* of an extractor issues at most one external call; once that call has
\* failed the invocation yields its failure (the supply fallback for the
\* classifier) with no further call and with the method and the prompt it
\* started with.
C11_NoRetry == []OneCall /\ [][EndsAfterCall]_vars

C11_Witness ==
    \E t \in Tasks :
        /\ Finished(t, "parse_supply")
        /\ task[t].out.kind = "raise"
        /\ task[t].calls = 1
        /\ task[t].result = PyNone

\* The methods that take the vocabulary.
VocabularyMethods == {"parse_supply", "parse_sale"}

\* The vocabulary part of the request an invocation has sent is the
\* rendering of the list it was started with.
SentAsStarted ==
    \A t \in Tasks :
        (task[t].pc # "idle" /\ task[t].op \in VocabularyMethods) =>
            task[t].request.products_context =
                products_context(task[t].args.existing_products)

\* A step that starts an invocation takes the list as it is at that moment;
\* a step of a suspended invocation keeps its request; a step that changes
\* the list changes no invocation; a step of an invocation keeps the list.
SnapshotStep ==
    /\ \A t \in Tasks :
        /\ (task[t].pc = "idle" /\ task'[t].pc = "awaiting"
                /\ task'[t].op \in VocabularyMethods) =>
               /\ task'[t].args.existing_products = existing_products
               /\ task'[t].request.products_context =
                      products_context(existing_products)
        /\ (task[t].pc = "awaiting") => task'[t].request = task[t].request
    /\ (existing_products' # existing_products) => task' = task
    /\ (task' # task) => existing_products' = existing_products

\* C12: the vocabulary is a value snapshot.  For parse_supply and parse_sale
\* the vocabulary content sent to the service is the content of
\* existing_products when the call starts; a change of the list while the
\* invocation is suspended changes neither its request nor its result, and
\* an invocation never modifies the list.
C12_VocabularySnapshot == []SentAsStarted /\ [][SnapshotStep]_vars

C12_Witness ==
    \E t \in Tasks :
        /\ Returned(t, "parse_supply")
        /\ task[t].result # PyNone
        /\ task[t].args.existing_products # existing_products
        /\ task[t].request.products_context # products_context(existing_products)

\* A transcription that did not produce a text: the file did not open, the
\* call raised, or the transcript has no text to read.
TranscriptionFailed(out) ==
    \/ out.kind \in {"open_raise", "raise"}
    \/ /\ out.kind = "transcript"
       /\ \/ "text" \notin DOMAIN out.transcript
          \/ out.transcript.text = PyNone

\* C14: transcribe_audio returns the transcribed text or None and never
\* raises; a failure to open the file, to call the service or to read the
\* text of the response yields None.
C14_TranscribeNeverRaises ==
    \A t \in Tasks :
        Finished(t, "transcribe_audio") =>
            /\ task[t].pc = "returned"
            /\ IF TranscriptionFailed(task[t].out)
               THEN task[t].result = PyNone
               ELSE task[t].result = task[t].out.transcript.text

C14_Witness ==
    \E t \in Tasks :
        /\ Returned(t, "transcribe_audio")
        /\ task[t].out.kind = "transcript"
        /\ "text" \notin DOMAIN task[t].out.transcript
        /\ task[t].result = PyNone

\* Two invocations of the same method on the same arguments that have both
\* ended have ended the same way.
SameOutcome ==
    \A t, u \in Callers :
        (/\ task[t].pc \in {"returned", "raised"}
         /\ task[u].pc \in {"returned", "raised"}
         /\ task[t].op = task[u].op
         /\ task[t].args = task[u].args) =>
            /\ task[t].pc = task[u].pc
            /\ task[t].result = task[u].result
            /\ task[t].exc = task[u].exc

\* A step of one invocation touches neither the other invocation, nor the
\* caller's list, nor the service.
Independent ==
    \A t, u \in Callers :
        (t # u /\ task'[t] # task[t]) =>
            /\ task'[u] = task[u]
            /\ existing_products' = existing_products
            /\ service' = service

\* C13: determinism across invocations.  Against a deterministic service,
\* two runs of the classifier or of an extractor on identical (text,
\* vocabulary, current date) have structurally identical outcomes,
\* whatever other invocations ran before or are interleaved, because no
\* invocation reads or writes state shared with another.
C13_Deterministic == []SameOutcome /\ [][Independent]_vars

C13_Witness ==
    /\ Returned("t1", "parse_sale")
    /\ Returned("t2", "parse_sale")
    /\ task["t1"].args = task["t2"].args
    /\ task["t1"].result = task["t2"].result
    /\ task["t1"].result # PyNone
    /\ task["t1"].args.existing_products # existing_products

====
